---- MODULE Spec2Model ----
(***************************************************************************)
(* SafeGuard-Navigator: route cost optimizer, Wilson-score reputation and  *)
(* safety scoring, modelled from the Python sources under backend/app.     *)
(*                                                                         *)
(* Python floats are IEEE-754 binary64.  The results of the code depend on *)
(* their rounding (a Wilson score can come out below zero, int() of a      *)
(* product can fall one short), so float arithmetic is modelled bit for    *)
(* bit: a float is a sign, a 53-bit mantissa and an exponent, and every    *)
(* operation rounds to nearest, ties to even.  Mantissas do not fit TLC's  *)
(* integers, so they are little-endian sequences of 15-bit limbs.          *)
(***************************************************************************)
EXTENDS Integers, Sequences, FiniteSets, TLC

----------------------------------------------------------------------------
(* Unbounded naturals as sequences of limbs (least significant first).     *)

LimbBase == 2^15

Limb(a, i) == IF i <= Len(a) THEN a[i] ELSE 0

RECURSIVE BNorm(_)
BNorm(a) ==
    IF a = <<>> THEN a
    ELSE IF a[Len(a)] = 0 THEN BNorm(SubSeq(a, 1, Len(a) - 1)) ELSE a

RECURSIVE BFromInt(_)
BFromInt(n) ==
    IF n = 0 THEN <<>> ELSE <<n % LimbBase>> \o BFromInt(n \div LimbBase)

RECURSIVE BToInt(_)
BToInt(a) ==
    IF a = <<>> THEN 0 ELSE a[1] + LimbBase * BToInt(Tail(a))

RECURSIVE BAddC(_, _, _, _)
BAddC(a, b, i, c) ==
    IF i > Len(a) /\ i > Len(b)
    THEN (IF c = 0 THEN <<>> ELSE <<c>>)
    ELSE LET s == Limb(a, i) + Limb(b, i) + c
         IN  <<s % LimbBase>> \o BAddC(a, b, i + 1, s \div LimbBase)

BAdd(a, b) == BAddC(a, b, 1, 0)

RECURSIVE BSubC(_, _, _, _)
BSubC(a, b, i, c) ==
    IF i > Len(a) THEN <<>>
    ELSE LET d == a[i] - Limb(b, i) - c
         IN  IF d < 0 THEN <<d + LimbBase>> \o BSubC(a, b, i + 1, 1)
                      ELSE <<d>> \o BSubC(a, b, i + 1, 0)

\* a - b for a >= b
BSub(a, b) == BNorm(BSubC(a, b, 1, 0))

RECURSIVE BCmpAt(_, _, _)
BCmpAt(a, b, i) ==
    IF i = 0 THEN 0
    ELSE IF a[i] # b[i] THEN (IF a[i] < b[i] THEN -1 ELSE 1)
    ELSE BCmpAt(a, b, i - 1)

\* -1, 0, 1 as a < b, a = b, a > b
BCmp(a, b) ==
    IF Len(a) # Len(b) THEN (IF Len(a) < Len(b) THEN -1 ELSE 1)
    ELSE BCmpAt(a, b, Len(a))

RECURSIVE BMulSmallC(_, _, _, _)
BMulSmallC(a, k, i, c) ==
    IF i > Len(a) THEN (IF c = 0 THEN <<>> ELSE <<c>>)
    ELSE LET s == a[i] * k + c
         IN  <<s % LimbBase>> \o BMulSmallC(a, k, i + 1, s \div LimbBase)

\* a * k for 0 <= k < LimbBase
BMulSmall(a, k) == IF k = 0 THEN <<>> ELSE BMulSmallC(a, k, 1, 0)

RECURSIVE BMulAt(_, _, _)
BMulAt(a, b, j) ==
    IF j > Len(b) THEN <<>>
    ELSE BAdd(BMulSmall(a, b[j]), <<0>> \o BMulAt(a, b, j + 1))

BMul(a, b) == BNorm(BMulAt(a, b, 1))

\* a * 2^n
BShl(a, n) ==
    IF a = <<>> THEN a
    ELSE [i \in 1..(n \div 15) |-> 0] \o BMulSmall(a, 2^(n % 15))

\* a \div 2^n
BShr(a, n) ==
    LET k == n \div 15
        r == n % 15
        t == IF k >= Len(a) THEN <<>> ELSE SubSeq(a, k + 1, Len(a))
    IN  IF r = 0 THEN t
        ELSE BNorm([i \in 1..Len(t) |->
                      (t[i] \div 2^r) + (Limb(t, i + 1) % 2^r) * 2^(15 - r)])

\* a % 2^n
BLowBits(a, n) == BSub(a, BShl(BShr(a, n), n))

RECURSIVE SmallBitLen(_)
SmallBitLen(k) == IF k = 0 THEN 0 ELSE 1 + SmallBitLen(k \div 2)

BBitLen(a) ==
    IF a = <<>> THEN 0 ELSE 15 * (Len(a) - 1) + SmallBitLen(a[Len(a)])

BIsOdd(a) == a # <<>> /\ a[1] % 2 = 1

\* n quotient bits of R / D, most significant first, for R < 2 * D:
\* <<floor(R * 2^(n-1) / D), remainder scaled>>
RECURSIVE DivBits(_, _, _, _)
DivBits(R, D, q, n) ==
    IF n = 0 \/ Len(q) < 0       \* (the test on q has it evaluated at every step)
    THEN <<q, R>>
    ELSE IF BCmp(R, D) >= 0
         THEN DivBits(BShl(BSub(R, D), 1), D, BAdd(BShl(q, 1), <<1>>), n - 1)
         ELSE DivBits(BShl(R, 1), D, BShl(q, 1), n - 1)

\* digit-by-digit integer square root: <<floor(sqrt(num)), remainder>>
RECURSIVE SqrtBits(_, _, _)
SqrtBits(num, res, bit) ==
    IF bit = <<>> THEN <<res, num>>
    ELSE LET t == BAdd(res, bit)
         IN  IF BCmp(num, t) >= 0
             THEN SqrtBits(BSub(num, t), BAdd(BShr(res, 1), bit), BShr(bit, 2))
             ELSE SqrtBits(num, BShr(res, 1), BShr(bit, 2))

BSqrt(a) ==
    IF a = <<>> THEN <<a, a>>
    ELSE SqrtBits(a, <<>>, BShl(<<1>>, 2 * ((BBitLen(a) - 1) \div 2)))

----------------------------------------------------------------------------
(* binary64: value = (-1)^s * m * 2^e with 2^52 <= m < 2^53, or zero.      *)

FZero == [s |-> 0, m |-> <<>>, e |-> 0]

FIsZero(a) == a.m = <<>>

\* the mantissa q2 after rounding, renormalised when it carried into bit 54
FRoundCarry(s, e, sh, q2) ==
    IF BBitLen(q2) = 54
    THEN [s |-> s, m |-> BShr(q2, 1), e |-> e + sh + 1]
    ELSE [s |-> s, m |-> q2, e |-> e + sh]

\* q with the sh bits cut off it comparing as c to one half: -1, 0, 1
FRoundUp(s, e, sticky, sh, q, c) ==
    FRoundCarry(s, e, sh,
                IF c = 1 \/ (c = 0 /\ (sticky \/ BIsOdd(q)))
                THEN BAdd(q, <<1>>) ELSE q)

\* M of n bits
FRoundBits(s, M, e, sticky, n) ==
    IF n <= 53
    THEN [s |-> s, m |-> BShl(M, 53 - n), e |-> e - (53 - n)]
    ELSE FRoundUp(s, e, sticky, n - 53, BShr(M, n - 53),
                  BCmp(BLowBits(M, n - 53), BShl(<<1>>, n - 54)))

\* round the exact value M * 2^e (plus a nonzero tail when sticky) to 53 bits,
\* to nearest, ties to even
FRound(s, M, e, sticky) ==
    IF M = <<>> THEN FZero ELSE FRoundBits(s, M, e, sticky, BBitLen(M))

FFromInt(n) ==
    IF n < 0 THEN FRound(1, BFromInt(-n), 0, FALSE)
             ELSE FRound(0, BFromInt(n), 0, FALSE)

FNeg(a) == IF FIsZero(a) THEN a ELSE [a EXCEPT !.s = 1 - a.s]

FMul(a, b) ==
    IF FIsZero(a) \/ FIsZero(b) THEN FZero
    ELSE FRound((a.s + b.s) % 2, BMul(a.m, b.m), a.e + b.e, FALSE)

\* a / b for b # 0
FDiv(a, b) ==
    IF FIsZero(a) THEN FZero
    ELSE LET qr == DivBits(a.m, b.m, <<>>, 56)
         IN  FRound((a.s + b.s) % 2, qr[1], a.e - b.e - 55, qr[2] # <<>>)

\* the sum of (-1)^sa * Ma * 2^e and (-1)^sb * Mb * 2^e, c comparing Ma to Mb
FAddAligned(sa, Ma, sb, Mb, e, c) ==
    IF sa = sb THEN FRound(sa, BAdd(Ma, Mb), e, FALSE)
    ELSE IF c = 0 THEN FZero
    ELSE IF c = 1 THEN FRound(sa, BSub(Ma, Mb), e, FALSE)
    ELSE FRound(sb, BSub(Mb, Ma), e, FALSE)

\* a + b with both mantissas brought to the exponent e
FAddAt(a, b, e) ==
    FAddAligned(a.s, BShl(a.m, a.e - e), b.s, BShl(b.m, b.e - e), e,
                BCmp(BShl(a.m, a.e - e), BShl(b.m, b.e - e)))

FAdd(a, b) ==
    IF FIsZero(a) THEN b
    ELSE IF FIsZero(b) THEN a
    ELSE FAddAt(a, b, IF a.e < b.e THEN a.e ELSE b.e)

FSub(a, b) == FAdd(a, FNeg(b))

\* math.sqrt for a >= 0
FSqrt(a) ==
    IF FIsZero(a) THEN FZero
    ELSE LET k  == IF a.e % 2 = 0 THEN 58 ELSE 59
             sr == BSqrt(BShl(a.m, k))
         IN  FRound(0, sr[1], (a.e - k) \div 2, sr[2] # <<>>)

FLt(a, b) ==
    IF FIsZero(a) THEN (~FIsZero(b) /\ b.s = 0)
    ELSE IF FIsZero(b) THEN a.s = 1
    ELSE IF a.s # b.s THEN a.s = 1
    ELSE LET lt == \/ a.e < b.e
                   \/ a.e = b.e /\ BCmp(a.m, b.m) = -1
             gt == \/ a.e > b.e
                   \/ a.e = b.e /\ BCmp(a.m, b.m) = 1
         IN  IF a.s = 0 THEN lt ELSE gt

FLe(a, b) == a = b \/ FLt(a, b)

\* int(a): truncation toward zero
FTrunc(a) ==
    IF FIsZero(a) THEN 0
    ELSE LET mag == IF a.e >= 0 THEN BShl(a.m, a.e) ELSE BShr(a.m, -a.e)
         IN  IF a.s = 1 THEN -BToInt(mag) ELSE BToInt(mag)

\* the float a decimal literal num/den denotes
FLit(num, den) == FDiv(FFromInt(num), FFromInt(den))

----------------------------------------------------------------------------
(* Bounds of the model.                                                    *)

\* largest positive / total handed to calculate_wilson_score directly
MaxCount == 16

\* number of update-reputation requests served for the user
MaxReports == 16

\* further update-reputation requests served for a user with a history
MaxMore == 2

\* most hazard reports stored near a location
MaxNearbyReports == 10

\* most coordinates in the geometry of a route the routing provider returns
MaxWaypoints == 2

\* most waypoint scores averaged when the scores are given
MaxSampled == 7

\* pairs of update-reputation requests served at the same time, one pair
\* after the other
MaxPairs == 2

----------------------------------------------------------------------------
(* State.                                                                  *)

VARIABLES
    wilson_call,      \* arguments of a direct calculate_wilson_score call
    wilson_ret,       \* what that call returned or raised
    db_reputation,    \* the user's committed user_reputation row
    request,          \* the update-reputation request being served
    response,         \* outcome of the last update-reputation request
    calls,            \* update requests served so far
    verified_calls,   \* ... of which new_report_verified was true
    sessions,         \* the update-reputation requests served concurrently
    osrm_available,   \* OSRMService.osrm_available
    is_local_osrm,    \* OSRMService.is_local_osrm (USE_LOCAL_OSRM)
    route_call,       \* the RouteRequest and the provider's answer to it
    route_result,     \* what calculate_route returned or raised
    safety_call,      \* a calculate_safety_score call and what the providers do
    safety_ret,       \* what that call returned
    service_call,     \* a safety_service.calculate_safety_score call
    service_ret       \* what that call returned or raised

wilsonVars == <<wilson_call, wilson_ret>>
repVars    == <<db_reputation, request, response, calls, verified_calls,
                sessions>>
routeVars  == <<osrm_available, is_local_osrm, route_call, route_result>>
safetyVars == <<safety_call, safety_ret, service_call, service_ret>>
vars       == <<wilson_call, wilson_ret, db_reputation, request, response,
                calls, verified_calls, sessions, osrm_available, is_local_osrm,
                route_call, route_result,
                safety_call, safety_ret, service_call, service_ret>>

----------------------------------------------------------------------------
(* ReputationCalculator (services/reputation_calculator.py)                *)

F1 == FFromInt(1)

\* z = 1.96, the default of calculate_wilson_score and of the request schema
Z196 == FLit(196, 100)

\* z_score values of ReputationCalculationRequest tried (z_score >= 0)
ZScores == {FZero, Z196}

\* A call returns a float or raises; divisions counts the / executed.
Returned(v, d) == [raised |-> "", value |-> v, divisions |-> d]
Raised(x, d)   == [raised |-> x, value |-> FZero, divisions |-> d]

\* A faulty variant: the share of the reports that were not verified
Proportion_of_rejected(positive, total) ==
    FDiv(FFromInt(total - positive), FFromInt(total))

\* line 27
Proportion(positive, total) == FDiv(FFromInt(positive), FFromInt(total))

\* lines 30-32: the interval's lower bound from the terms of the formula
WilsonBound(z, denominator, centre, radicand) ==
    IF FLt(radicand, FZero)
    THEN Raised("ValueError", 5)        \* math.sqrt of a negative
    ELSE Returned(FDiv(FSub(centre, FMul(z, FSqrt(radicand))), denominator), 6)

\* lines 28-30: denominator, centre and the radicand of adjustment
WilsonTerms(total, z, n, zz, p) ==
    WilsonBound(z, FAdd(F1, FDiv(zz, n)),
                FAdd(p, FDiv(zz, FFromInt(2 * total))),
                FDiv(FAdd(FMul(p, FSub(F1, p)),
                          FDiv(zz, FFromInt(4 * total))), n))

\* lines 27-32, total # 0
WilsonFormula(positive, total, z) ==
    WilsonTerms(total, z, FFromInt(total), FMul(z, z),
                Proportion(positive, total))

\* A faulty variant: the share of verified reports itself, with no interval
calculate_wilson_score_plain(positive, total, z) ==
    IF total = 0 THEN Returned(FZero, 0)
    ELSE Returned(Proportion(positive, total), 1)

\* A faulty variant: no test of total before the first division
calculate_wilson_score_unguarded(positive, total, z) ==
    IF total = 0 THEN Raised("ZeroDivisionError", 1)
    ELSE WilsonFormula(positive, total, z)

\* lines 24-32
calculate_wilson_score(positive, total, z) ==
    IF total = 0 THEN Returned(FZero, 0)
    ELSE WilsonFormula(positive, total, z)

\* A faulty variant: every report counted as verified
update_reputation_score_all(current_positive, current_total, new_report_verified) ==
    LET new_total    == current_total + 1
        new_positive == current_positive + 1
        new_score    == calculate_wilson_score(new_positive, new_total, Z196)
    IN  [new_score |-> new_score, new_positive |-> new_positive,
         new_total |-> new_total]

\* lines 47-51
update_reputation_score(current_positive, current_total, new_report_verified) ==
    LET new_total    == current_total + 1
        new_positive == current_positive + (IF new_report_verified THEN 1 ELSE 0)
        new_score    == calculate_wilson_score(new_positive, new_total, Z196)
    IN  [new_score |-> new_score, new_positive |-> new_positive,
         new_total |-> new_total]

----------------------------------------------------------------------------
(* A direct call of calculate_wilson_score over the request schema's       *)
(* domain: positive >= 0, total >= 0, z_score >= 0.                        *)

NoCall == [positive |-> 0, total |-> 0, z |-> FZero]
NoRet  == [raised |-> "pending", value |-> FZero, divisions |-> 0]

WilsonCall(positive, total, z) ==
    /\ wilson_ret.raised = "pending"
    /\ wilson_call' = [positive |-> positive, total |-> total, z |-> z]
    /\ wilson_ret' = calculate_wilson_score(positive, total, z)
    /\ UNCHANGED repVars
    /\ UNCHANGED routeVars
    /\ UNCHANGED safetyVars

\* the next call
WilsonReset ==
    /\ wilson_ret.raised # "pending"
    /\ wilson_call' = NoCall
    /\ wilson_ret' = NoRet
    /\ UNCHANGED repVars
    /\ UNCHANGED routeVars
    /\ UNCHANGED safetyVars

----------------------------------------------------------------------------
(* POST /update-reputation (api/reputation.py), one user id.               *)

F04 == FLit(4, 10)
F06 == FLit(6, 10)
F08 == FLit(8, 10)

\* A faulty variant: "expert" from 50 reports on, not from 51
Standing_expert_at_fifty(new_score, new_total) ==
    IF new_total < 10 THEN "new"
    ELSE IF FLt(F08, new_score) /\ new_total >= 50 THEN "expert"
    ELSE IF FLt(F06, new_score) /\ new_total > 20 THEN "verified"
    ELSE IF FLt(F04, new_score) THEN "trusted"
    ELSE "new"

\* A faulty variant: the rules on the score tried before the rule on the total
Standing_score_first(new_score, new_total) ==
    IF FLt(F08, new_score) /\ new_total > 50 THEN "expert"
    ELSE IF FLt(F06, new_score) /\ new_total > 20 THEN "verified"
    ELSE IF FLt(F04, new_score) THEN "trusted"
    ELSE "new"

\* lines 58-68
Standing(new_score, new_total) ==
    IF new_total < 10 THEN "new"
    ELSE IF FLt(F08, new_score) /\ new_total > 50 THEN "expert"
    ELSE IF FLt(F06, new_score) /\ new_total > 20 THEN "verified"
    ELSE IF FLt(F04, new_score) THEN "trusted"
    ELSE "new"

\* column defaults of UserReputation (models/models.py)
NewReputation ==
    [exists |-> TRUE, trust_level |-> FLit(5, 10), positive_reports |-> 0,
     total_reports |-> 0, community_standing |-> "new"]

NoReputation == [NewReputation EXCEPT !.exists = FALSE]

NoRequest  == [pc |-> "idle", new_report_verified |-> FALSE]
NoResponse == [status |-> "none", trust_level |-> FZero, positive_reports |-> 0,
               total_reports |-> 0, community_standing |-> "new"]

\* ReputationResponse: trust_level: float = Field(..., ge=0, le=1)
ValidReputationResponse(r) == FLe(FZero, r.trust_level) /\ FLe(r.trust_level, F1)

\* lines 39-49: query the row, create and commit it if the user has none
UpdateBegin(verified) ==
    /\ request.pc = "idle"
    /\ calls < MaxReports
    /\ request' = [pc |-> "loaded", new_report_verified |-> verified]
    /\ db_reputation' = IF db_reputation.exists THEN db_reputation
                        ELSE NewReputation
    /\ UNCHANGED <<response, calls, verified_calls, sessions>>
    /\ UNCHANGED wilsonVars
    /\ UNCHANGED routeVars
    /\ UNCHANGED safetyVars

\* lines 51-95: compute, write back, commit, build the response
UpdateFinish ==
    /\ request.pc = "loaded"
    /\ \E upd \in {update_reputation_score(db_reputation.positive_reports,
                                            db_reputation.total_reports,
                                            request.new_report_verified)} :
       \E row \in {[exists |-> TRUE,
                    trust_level |-> upd.new_score.value,
                    positive_reports |-> upd.new_positive,
                    total_reports |-> upd.new_total,
                    community_standing |->
                        Standing(upd.new_score.value, upd.new_total)]} :
          IF upd.new_score.raised # ""
          THEN /\ db_reputation' = db_reputation
               /\ response' = [NoResponse EXCEPT !.status = "error500"]
          ELSE /\ db_reputation' = row
               /\ response' =
                    IF ValidReputationResponse(row)
                    THEN [status |-> "ok",
                          trust_level |-> row.trust_level,
                          positive_reports |-> row.positive_reports,
                          total_reports |-> row.total_reports,
                          community_standing |-> row.community_standing]
                    ELSE [NoResponse EXCEPT !.status = "error500"]
    /\ calls' = calls + 1
    /\ verified_calls' = verified_calls
                           + (IF request.new_report_verified THEN 1 ELSE 0)
    /\ request' = NoRequest
    /\ UNCHANGED sessions
    /\ UNCHANGED wilsonVars
    /\ UNCHANGED routeVars
    /\ UNCHANGED safetyVars

----------------------------------------------------------------------------
(* Two update-reputation requests for the same user id served at the same  *)
(* time.  The handler is a plain def, so FastAPI runs each request in a     *)
(* worker thread with a Session of its own (get_db); no isolation level is  *)
(* set on the engine and the handler takes no lock.                         *)

NoSession ==
    [pc |-> "idle", new_report_verified |-> FALSE, row |-> NoReputation,
     status |-> "none"]

NoSessions == [i \in 1..2 |-> NoSession]

\* lines 40-42: the query; row is the object the Session now holds
ConcurrentQuery(i, verified) ==
    /\ sessions[i].pc = "idle"
    /\ sessions' = [sessions EXCEPT ![i] =
           [pc |-> IF db_reputation.exists THEN "loaded" ELSE "missing",
            new_report_verified |-> verified, row |-> db_reputation,
            status |-> "none"]]
    /\ UNCHANGED <<db_reputation, request, response, calls, verified_calls>>
    /\ UNCHANGED wilsonVars
    /\ UNCHANGED routeVars
    /\ UNCHANGED safetyVars

\* lines 45-49: INSERT and commit; user_id is the primary key, so the INSERT
\* fails (IntegrityError, answered with status 500 by lines 92-95) when the
\* row has been created since the query
ConcurrentCreate(i) ==
    /\ sessions[i].pc = "missing"
    /\ IF db_reputation.exists
       THEN /\ sessions' = [sessions EXCEPT ![i].pc = "done",
                                            ![i].status = "error500"]
            /\ calls' = calls + 1
            /\ verified_calls' = verified_calls
                   + (IF sessions[i].new_report_verified THEN 1 ELSE 0)
            /\ UNCHANGED db_reputation
       ELSE /\ sessions' = [sessions EXCEPT ![i].pc = "loaded",
                                            ![i].row = NewReputation]
            /\ db_reputation' = NewReputation
            /\ UNCHANGED <<calls, verified_calls>>
    /\ UNCHANGED <<request, response>>
    /\ UNCHANGED wilsonVars
    /\ UNCHANGED routeVars
    /\ UNCHANGED safetyVars

\* the UPDATE a flush emits: the columns whose new value differs from the
\* value loaded, whatever the table holds by now
Flushed(stored, loaded, new) ==
    [c \in DOMAIN stored |-> IF new[c] = loaded[c] THEN stored[c] ELSE new[c]]

\* lines 52-95: compute from the object the Session holds, write back, commit
ConcurrentWrite(i) ==
    /\ sessions[i].pc = "loaded"
    /\ \E upd \in {update_reputation_score(sessions[i].row.positive_reports,
                                            sessions[i].row.total_reports,
                                            sessions[i].new_report_verified)} :
       \E row \in {[exists |-> TRUE,
                    trust_level |-> upd.new_score.value,
                    positive_reports |-> upd.new_positive,
                    total_reports |-> upd.new_total,
                    community_standing |->
                        Standing(upd.new_score.value, upd.new_total)]} :
          IF upd.new_score.raised # ""
          THEN /\ db_reputation' = db_reputation
               /\ sessions' = [sessions EXCEPT ![i].pc = "done",
                                               ![i].status = "error500"]
          ELSE /\ db_reputation' = Flushed(db_reputation, sessions[i].row, row)
               /\ sessions' = [sessions EXCEPT
                     ![i].pc = "done",
                     ![i].status = IF ValidReputationResponse(row)
                                   THEN "ok" ELSE "error500"]
    /\ calls' = calls + 1
    /\ verified_calls' = verified_calls
           + (IF sessions[i].new_report_verified THEN 1 ELSE 0)
    /\ UNCHANGED <<request, response>>
    /\ UNCHANGED wilsonVars
    /\ UNCHANGED routeVars
    /\ UNCHANGED safetyVars

\* both requests are answered; the next two arrive
ConcurrentReset ==
    /\ \A i \in 1..2 : sessions[i].pc = "done"
    /\ calls < MaxPairs * 2
    /\ sessions' = NoSessions
    /\ UNCHANGED <<db_reputation, request, response, calls, verified_calls>>
    /\ UNCHANGED wilsonVars
    /\ UNCHANGED routeVars
    /\ UNCHANGED safetyVars

----------------------------------------------------------------------------
(* OSRMService.get_route (services/osrm_service.py)                        *)

\* What the HTTP request to the routing provider can end in.  A number of
\* the reply is given in tenths (distance10 / 10 metres), as OSRM prints it.
HttpFailures ==
    {"timeout", "connection_error", "status_400", "status_other", "code_not_ok",
     "internal_error"}

OsrmReplies ==
    [kind : HttpFailures \cup {"ok_no_routes"},
     distance10 : {0}, duration10 : {0}, coordinates : {<<>>},
     has_geometry : {FALSE}]
    \cup
    {[kind |-> "ok_route", distance10 |-> 10 * d[1], duration10 |-> d[2],
      coordinates |-> <<>>, has_geometry |-> FALSE] :
        d \in {<<0, 0>>, <<3, 20>>, <<4, 30>>, <<6, 40>>, <<5000, 36005>>}}
    \cup
    [kind : {"ok_route"},
     distance10 : {50000}, duration10 : {36000},
     coordinates : {[i \in 1..n |-> i] : n \in 1..MaxWaypoints},
     has_geometry : {TRUE}]

\* the "fallback response" get_route returns instead of raising
FallbackRoute(summary) ==
    [distance_meters |-> FZero, duration_seconds |-> FZero, waypoints |-> <<>>,
     polyline_is_str |-> TRUE, summary |-> summary]

\* _process_route_response: with "geometries": "geojson" the geometry, and
\* so the polyline, is a GeoJSON object (a dict), "" when there is none
process_route_response(data) ==
    IF data.kind = "ok_no_routes" THEN <<>>
    ELSE << [distance_meters  |-> FLit(data.distance10, 10),
             duration_seconds |-> FLit(data.duration10, 10),
             waypoints        |-> data.coordinates,
             polyline_is_str  |-> ~data.has_geometry,
             summary          |-> ""] >>

\* the "routes" list of the dictionary get_route returns; it never raises
get_route(available, local, data) ==
    IF ~available /\ local THEN << FallbackRoute("OSRM not available") >>
    ELSE IF data.kind \in {"ok_route", "ok_no_routes"}
         THEN process_route_response(data)
    ELSE IF data.kind = "timeout" THEN << FallbackRoute("Service timeout") >>
    ELSE IF data.kind = "connection_error"
         THEN << FallbackRoute("Service error") >>
    ELSE IF data.kind = "status_400" THEN << FallbackRoute("Invalid request") >>
    ELSE IF data.kind = "status_other"
         THEN << FallbackRoute("Service unavailable") >>
    ELSE IF data.kind = "code_not_ok" THEN << FallbackRoute("Routing failed") >>
    ELSE << FallbackRoute("Internal error") >>

\* the provider did not deliver a route
ProviderFailed(available, local, data) ==
    (~available /\ local) \/ data.kind # "ok_route"

----------------------------------------------------------------------------
(* RouteOptimizer (services/route_optimizer.py)                            *)

F03 == FLit(3, 10)
F07 == FLit(7, 10)
F12 == FLit(12, 10)
F13 == FLit(13, 10)
F100 == FFromInt(100)

\* RouteRequest.safety_preference: int = Field(50, ge=0, le=100)
MaxPreference == 100

\* start and end of a request are Location objects of the request schema;
\* the requests tried start at one point and end there or at another one
StartLocation == [latitude |-> 13, longitude |-> 80]
EndLocations  == {StartLocation, [latitude |-> 12, longitude |-> 79]}

\* what calculate_safety_score can return for a waypoint: an int in 0..100
SafetyScores == {0, 70, 100}

\* A faulty variant: the preference taken as the weight itself
time_weight_unscaled(safety_preference) ==
    FDiv(FFromInt(safety_preference), F100)

\* lines 61 and 157
time_weight(safety_preference) ==
    FAdd(F03, FMul(FDiv(FFromInt(safety_preference), F100), F04))

\* lines 62 and 158
safety_weight(tw) == FSub(F1, tw)

RECURSIVE Sum(_)
Sum(seq) == IF seq = <<>> THEN 0 ELSE Head(seq) + Sum(Tail(seq))

Min(a, b) == IF a < b THEN a ELSE b
Max(a, b) == IF a > b THEN a ELSE b

\* A faulty variant: no default of 70 for a route without waypoints
avg_safety_score_no_default(safety_scores) ==
    IF safety_scores = <<>> THEN FZero
    ELSE FDiv(FFromInt(Sum(safety_scores)), FFromInt(Len(safety_scores)))

\* line 57
avg_safety_score(safety_scores) ==
    IF safety_scores = <<>> THEN FFromInt(70)
    ELSE FDiv(FFromInt(Sum(safety_scores)), FFromInt(Len(safety_scores)))

NoRoute ==
    [distance_meters |-> 0, duration_seconds |-> 0, safety_score |-> 0,
     time_weight |-> FZero, safety_weight |-> FZero, waypoints |-> <<>>]

NoResult ==
    [outcome |-> "none", error |-> "", path |-> "", safety_calls |-> <<>>,
     route |-> NoRoute, safest |-> NoRoute, fastest |-> NoRoute,
     balanced |-> NoRoute]

RouteRaised(error, calls_made) ==
    [NoResult EXCEPT !.outcome = "raised", !.error = error,
                     !.path = "fallback", !.safety_calls = calls_made]

\* _generate_waypoints, lines 243-252, for start and end given as mappings
\* with the float values of their integer coordinates
generate_waypoints(start, end, num_points) ==
    [i \in 1..num_points |->
        [latitude |->
            FAdd(FFromInt(start.latitude),
                 FMul(FSub(FFromInt(end.latitude), FFromInt(start.latitude)),
                      FDiv(FFromInt(i), FFromInt(num_points + 1)))),
         longitude |->
            FAdd(FFromInt(start.longitude),
                 FMul(FSub(FFromInt(end.longitude), FFromInt(start.longitude)),
                      FDiv(FFromInt(i), FFromInt(num_points + 1))))]]

\* _create_mock_route, called with the RouteRequest: start and end are
\* Location objects (pydantic models), and line 141 hands them to
\* _generate_waypoints, whose start["latitude"] (line 248) raises TypeError:
\* a Location is not subscriptable.  Nothing catches it.
create_mock_route(req, calls_made) == RouteRaised("TypeError", calls_made)

IsIntegral(x) == FFromInt(FTrunc(x)) = x

\* Route (schemas): distance_meters: int, duration_seconds: int,
\* safety_score: int in 0..100, polyline: str
ValidRoute(route_data, score) ==
    /\ route_data.polyline_is_str
    /\ IsIntegral(route_data.distance_meters)
    /\ IsIntegral(route_data.duration_seconds)
    /\ score >= 0 /\ score <= 100

\* lines 64-102: the main route and its three relabelled variants
MainRoute(route_data, avg, tw) ==
    [distance_meters  |-> FTrunc(route_data.distance_meters),
     duration_seconds |-> FTrunc(route_data.duration_seconds),
     safety_score     |-> FTrunc(avg),
     time_weight      |-> tw,
     safety_weight    |-> safety_weight(tw),
     waypoints        |-> route_data.waypoints]

\* A faulty variant: the safest variant given a safety weight of its own
safest_route_reweighted(main_route, route_data, avg) ==
    [main_route EXCEPT
        !.safety_weight = F07,
        !.safety_score = Min(100, FTrunc(FMul(avg, F12))),
        !.duration_seconds = FTrunc(FMul(route_data.duration_seconds, F13))]

\* A faulty variant: the safest variant's score not capped at 100
safest_route_uncapped(main_route, route_data, avg) ==
    [main_route EXCEPT
        !.safety_score = FTrunc(FMul(avg, F12)),
        !.duration_seconds = FTrunc(FMul(route_data.duration_seconds, F13))]

safest_route(main_route, route_data, avg) ==
    [main_route EXCEPT
        !.safety_score = Min(100, FTrunc(FMul(avg, F12))),
        !.duration_seconds = FTrunc(FMul(route_data.duration_seconds, F13))]

fastest_route(main_route, route_data, avg) ==
    [main_route EXCEPT
        !.safety_score = Max(0, FTrunc(FMul(avg, F08))),
        !.duration_seconds = FTrunc(FMul(route_data.duration_seconds, F07))]

balanced_route(main_route, route_data, avg) == main_route

\* calculate_route: req the RouteRequest, routes what get_route returned,
\* scores what calculate_safety_score returns for the waypoints, in order
calculate_route(req, routes, scores) ==
    IF routes = <<>>
    THEN create_mock_route(req, <<>>)              \* "No routes found"
    ELSE LET route_data == routes[1]
             calls_made == route_data.waypoints
             avg        == avg_safety_score(scores)
             main_route == MainRoute(route_data, avg,
                                     time_weight(req.safety_preference))
         IN  IF ~ValidRoute(route_data, FTrunc(avg))
             THEN create_mock_route(req, calls_made)  \* RouteResponse(...) raised
             ELSE [outcome |-> "returned", error |-> "", path |-> "provider",
                   safety_calls |-> calls_made,
                   route    |-> main_route,
                   safest   |-> safest_route(main_route, route_data, avg),
                   fastest  |-> fastest_route(main_route, route_data, avg),
                   balanced |-> balanced_route(main_route, route_data, avg)]

\* (user_type only reaches calculate_safety_score, whose results are scores)
RouteRequests ==
    [start : {StartLocation}, end : EndLocations,
     safety_preference : 0..MaxPreference]

\* no HTTP request is made while the local OSRM is not available
NoReply ==
    [kind |-> "not_requested", distance10 |-> 0, duration10 |-> 0,
     coordinates |-> <<>>, has_geometry |-> FALSE]

NoRouteCall ==
    [start |-> [latitude |-> 0, longitude |-> 0],
     end |-> [latitude |-> 0, longitude |-> 0],
     safety_preference |-> 0,
     reply |-> "none", provider_failed |-> FALSE, safety_scores |-> <<>>]

\* main.py, startup: setup_osrm() when the local OSRM is in use
SetupOsrm(ok) ==
    /\ is_local_osrm
    /\ route_result.outcome = "none"
    /\ osrm_available' = ok
    /\ UNCHANGED <<is_local_osrm, route_call, route_result>>
    /\ UNCHANGED wilsonVars
    /\ UNCHANGED repVars
    /\ UNCHANGED safetyVars

\* one call of calculate_route, the provider answering data
CalculateRoute(req, data) ==
    /\ route_result.outcome = "none"
    /\ data.kind = "not_requested" <=> (~osrm_available /\ is_local_osrm)
    /\ \E routes \in {get_route(osrm_available, is_local_osrm, data)} :
       \E n \in {IF routes = <<>> THEN 0 ELSE Len(routes[1].waypoints)} :
       \E scores \in [1..n -> SafetyScores] :
          /\ route_result' = calculate_route(req, routes, scores)
          /\ route_call' =
               [start |-> req.start, end |-> req.end,
                safety_preference |-> req.safety_preference,
                reply |-> data.kind,
                provider_failed |->
                    ProviderFailed(osrm_available, is_local_osrm, data),
                safety_scores |-> scores]
    /\ UNCHANGED <<osrm_available, is_local_osrm>>
    /\ UNCHANGED wilsonVars
    /\ UNCHANGED repVars
    /\ UNCHANGED safetyVars

\* lists of n <= MaxSampled scores with every sum a list of n scores can have
ScoreLists ==
    {[i \in 1..n |-> IF i <= k THEN a ELSE a + 1] :
        n \in 1..MaxSampled, k \in 1..MaxSampled, a \in 0..99}
    \cup {<<100>>}

\* lines 57-102 (and 153-197) on the scores calculate_safety_score returned
\* for the waypoints: the average, the main route and its three variants
Alternatives(scores) ==
    /\ route_result.outcome = "none"
    /\ route_call' = [NoRouteCall EXCEPT !.reply = "scores",
                                         !.safety_scores = scores]
    /\ \E avg \in {avg_safety_score(scores)} :
       \E main_route \in {MainRoute(FallbackRoute(""), avg, time_weight(50))} :
          route_result' =
              [outcome |-> "returned", error |-> "", path |-> "scores",
               safety_calls |-> <<>>,
               route    |-> main_route,
               safest   |-> safest_route(main_route, FallbackRoute(""), avg),
               fastest  |-> fastest_route(main_route, FallbackRoute(""), avg),
               balanced |-> balanced_route(main_route, FallbackRoute(""), avg)]
    /\ UNCHANGED <<osrm_available, is_local_osrm>>
    /\ UNCHANGED wilsonVars
    /\ UNCHANGED repVars
    /\ UNCHANGED safetyVars

\* the next request
RouteReset ==
    /\ route_result.outcome # "none"
    /\ route_call' = NoRouteCall
    /\ route_result' = NoResult
    /\ UNCHANGED <<osrm_available, is_local_osrm>>
    /\ UNCHANGED wilsonVars
    /\ UNCHANGED repVars
    /\ UNCHANGED safetyVars

----------------------------------------------------------------------------
(* calculate_safety_score (services/safety_calculator.py) and the providers *)
(* it asks (services/viirs_service.py, osm_service.py,                      *)
(* municipal_service.py)                                                    *)

\* A provider answers, fails (an HTTP or connection error), or stays silent.
ProviderStates == {"ok", "error", "silent"}

\* POIs the Overpass API counts within 100, 200, 300 and 1000 m
PoiProfiles ==
    {[r100 |-> 0,  r200 |-> 0,   r300 |-> 0,   r1000 |-> 0],
     [r100 |-> 1,  r200 |-> 3,   r300 |-> 6,   r1000 |-> 8],
     [r100 |-> 16, r200 |-> 25,  r300 |-> 30,  r1000 |-> 60],
     [r100 |-> 40, r200 |-> 120, r300 |-> 150, r1000 |-> 300]}

\* mean grey value (0..255) of the VIIRS image
PixelMeans == {0, 64, 128, 192, 255}

\* metres from the location to the nearest entry of MOCK_DARK_SPOTS
SpotDistances == {0, 400, 5000}

\* user_type is any string; "car" stands for those the code does not name
UserTypes  == {"pedestrian", "two_wheeler", "cyclist", "car"}
TimesOfDay == {"day", "evening", "night"}

Environments ==
    [viirs : ProviderStates, overpass : ProviderStates,
     pixel_mean : PixelMeans, poi : PoiProfiles, spot_distance : SpotDistances]

\* viirs_service.get_viirs_lighting_data: brightness / 255.0, and 0.0 on any
\* error; requests.get is given no timeout
get_viirs_lighting_data(env) ==
    IF env.viirs = "ok" THEN FDiv(FFromInt(env.pixel_mean), FFromInt(255))
    ELSE FZero

\* osm_service.get_poi_count: the count, and 0 on any error; requests.post
\* is given no timeout
get_poi_count(env, radius) ==
    IF env.overpass # "ok" THEN 0
    ELSE IF radius = 100 THEN env.poi.r100
    ELSE IF radius = 200 THEN env.poi.r200
    ELSE IF radius = 300 THEN env.poi.r300
    ELSE env.poi.r1000

\* municipal_service.get_dark_spots: len() of the list; the entries of
\* MOCK_DARK_SPOTS lie in different cities, so at most one is near
get_dark_spots(env, radius) == IF env.spot_distance < radius THEN 1 ELSE 0

F085 == FLit(85, 100)

\* A faulty variant: the derating applied before the clamp to 0..100
get_lighting_score_derated_first(env, time_of_day) ==
    LET viirs_score == FTrunc(FMul(get_viirs_lighting_data(env), F100))
        dark_spot_penalty == get_dark_spots(env, 500) * 10
        poi_count == get_poi_count(env, 300)
        poi_bonus == IF poi_count > 50 THEN 20
                     ELSE IF poi_count > 20 THEN 10
                     ELSE IF poi_count > 5 THEN 5
                     ELSE 0
        raw_score == viirs_score + poi_bonus - dark_spot_penalty
    IN  IF time_of_day = "night"
        THEN Max(0, Min(100, FTrunc(FMul(FFromInt(raw_score), F07))))
        ELSE IF time_of_day = "evening"
        THEN Max(0, Min(100, FTrunc(FMul(FFromInt(raw_score), F085))))
        ELSE Max(0, Min(100, raw_score))

\* _get_lighting_score, lines 83-116
get_lighting_score(env, time_of_day) ==
    LET viirs_score == FTrunc(FMul(get_viirs_lighting_data(env), F100))
        dark_spot_penalty == get_dark_spots(env, 500) * 10
        poi_count == get_poi_count(env, 300)
        poi_bonus == IF poi_count > 50 THEN 20
                     ELSE IF poi_count > 20 THEN 10
                     ELSE IF poi_count > 5 THEN 5
                     ELSE 0
        base_score == Max(0, Min(100, viirs_score + poi_bonus
                                        - dark_spot_penalty))
    IN  IF time_of_day = "night"
        THEN FTrunc(FMul(FFromInt(base_score), F07))
        ELSE IF time_of_day = "evening"
        THEN FTrunc(FMul(FFromInt(base_score), F085))
        ELSE base_score

\* _get_footfall_score, lines 126-140
get_footfall_score(env) ==
    LET poi_count == get_poi_count(env, 200)
    IN  IF poi_count > 100 THEN 95
        ELSE IF poi_count > 50 THEN 80
        ELSE IF poi_count > 20 THEN 65
        ELSE IF poi_count > 5 THEN 45
        ELSE 25

\* _get_hazard_score, lines 150-171
get_hazard_score(env) ==
    LET dark_spot_hazards == get_dark_spots(env, 300) * 15
        poi_count == get_poi_count(env, 100)
        road_quality_bonus == IF poi_count > 30 THEN 20
                              ELSE IF poi_count > 15 THEN 10
                              ELSE IF poi_count > 5 THEN 5
                              ELSE 0
    IN  Max(0, Min(100, dark_spot_hazards - road_quality_bonus))

\* _get_proximity_score, lines 181-195
get_proximity_score(env) ==
    LET emergency_poi_count == get_poi_count(env, 1000)
    IN  IF emergency_poi_count > 10 THEN 90
        ELSE IF emergency_poi_count > 5 THEN 75
        ELSE IF emergency_poi_count > 2 THEN 60
        ELSE IF emergency_poi_count > 0 THEN 40
        ELSE 20

\* lines 48-53
weights ==
    [lighting |-> FLit(30, 100), footfall |-> FLit(25, 100),
     hazards |-> FLit(20, 100), proximity |-> FLit(25, 100)]

\* A faulty variant: the hazard score added as it is, not inverted
weighted_score_hazard_added(lighting_score, footfall_score, hazard_score, proximity_score) ==
    FAdd(FAdd(FAdd(FMul(FFromInt(lighting_score), weights.lighting),
                   FMul(FFromInt(footfall_score), weights.footfall)),
              FMul(FFromInt(hazard_score), weights.hazards)),
         FMul(FFromInt(proximity_score), weights.proximity))

\* lines 56-61
weighted_score(lighting_score, footfall_score, hazard_score, proximity_score) ==
    FAdd(FAdd(FAdd(FMul(FFromInt(lighting_score), weights.lighting),
                   FMul(FFromInt(footfall_score), weights.footfall)),
              FMul(FFromInt(100 - hazard_score), weights.hazards)),
         FMul(FFromInt(proximity_score), weights.proximity))

\* A faulty variant: every user type but "pedestrian" derated
adjusted_score_others_derated(score, user_type) ==
    IF user_type = "two_wheeler" THEN FMul(score, FLit(95, 100))
    ELSE IF user_type = "pedestrian" THEN score
    ELSE FMul(score, FLit(90, 100))

\* lines 64-67
adjusted_score(score, user_type) ==
    IF user_type = "two_wheeler" THEN FMul(score, FLit(95, 100))
    ELSE IF user_type = "cyclist" THEN FMul(score, FLit(90, 100))
    ELSE score

\* A faulty variant: the four scores summed without weights or clamping
final_score_of_sum(lighting_score, footfall_score, hazard_score, proximity_score, user_type) ==
    lighting_score + footfall_score + (100 - hazard_score) + proximity_score

\* lines 56-72
final_score(lighting_score, footfall_score, hazard_score, proximity_score, user_type) ==
    Max(0, Min(100, FTrunc(adjusted_score(
        weighted_score(lighting_score, footfall_score, hazard_score,
                       proximity_score), user_type))))

NoEnvironment ==
    [viirs |-> "ok", overpass |-> "ok", pixel_mean |-> 0,
     poi |-> [r100 |-> 0, r200 |-> 0, r300 |-> 0, r1000 |-> 0],
     spot_distance |-> 5000]

NoSafetyCall ==
    [pc |-> "idle", env |-> NoEnvironment, user_type |-> "pedestrian",
     time_of_day |-> "day"]

NoSafetyRet ==
    [outcome |-> "none", lighting |-> 0, footfall |-> 0, hazard |-> 0,
     proximity |-> 0, score |-> 0]

SafetyReturned(lighting_score, footfall_score, hazard_score, proximity_score, user_type) ==
    [outcome |-> "returned", lighting |-> lighting_score,
     footfall |-> footfall_score, hazard |-> hazard_score,
     proximity |-> proximity_score,
     score |-> final_score(lighting_score, footfall_score, hazard_score,
                           proximity_score, user_type)]

\* lines 35-72: the four lookups, then the blend
calculate_safety_score(env, user_type, time_of_day) ==
    SafetyReturned(get_lighting_score(env, time_of_day),
                   get_footfall_score(env), get_hazard_score(env),
                   get_proximity_score(env), user_type)

\* the call is made and the lookups start
SafetyCall(env, user_type, time_of_day) ==
    /\ safety_call.pc = "idle"
    /\ safety_call' = [pc |-> "waiting", env |-> env, user_type |-> user_type,
                       time_of_day |-> time_of_day]
    /\ safety_ret' = NoSafetyRet
    /\ UNCHANGED <<service_call, service_ret>>
    /\ UNCHANGED wilsonVars
    /\ UNCHANGED repVars
    /\ UNCHANGED <<osrm_available, is_local_osrm, route_call, route_result>>

\* lines 37-42: the lookups run one after the other (the provider calls are
\* blocking calls inside the coroutines) and each waits for its provider
\* without a timeout: asyncio.gather is through once every provider has
\* answered or failed.
LookupsReturn ==
    /\ safety_call.pc = "waiting"
    /\ safety_call.env.viirs # "silent"
    /\ safety_call.env.overpass # "silent"
    /\ safety_call' = [safety_call EXCEPT !.pc = "gathered"]
    /\ UNCHANGED <<safety_ret, service_call, service_ret>>
    /\ UNCHANGED wilsonVars
    /\ UNCHANGED repVars
    /\ UNCHANGED <<osrm_available, is_local_osrm, route_call, route_result>>

\* lines 44-72: the blend of what the lookups returned
SafetyReturn ==
    /\ safety_call.pc = "gathered"
    /\ safety_call' = [safety_call EXCEPT !.pc = "done"]
    /\ safety_ret' = calculate_safety_score(safety_call.env,
                                            safety_call.user_type,
                                            safety_call.time_of_day)
    /\ UNCHANGED <<service_call, service_ret>>
    /\ UNCHANGED wilsonVars
    /\ UNCHANGED repVars
    /\ UNCHANGED <<osrm_available, is_local_osrm, route_call, route_result>>

\* the next call
SafetyReset ==
    /\ safety_call.pc = "done"
    /\ safety_call' = NoSafetyCall
    /\ safety_ret' = NoSafetyRet
    /\ UNCHANGED <<service_call, service_ret>>
    /\ UNCHANGED wilsonVars
    /\ UNCHANGED repVars
    /\ UNCHANGED <<osrm_available, is_local_osrm, route_call, route_result>>

\* scores the four lookups can hand to the blend: integers in 0..100
FactorScores == {0, 25, 50, 90, 100}

\* lines 44-72 on what asyncio.gather delivered
SafetyBlend(lighting_score, footfall_score, hazard_score, proximity_score, user_type) ==
    /\ safety_call.pc = "idle"
    /\ safety_call' = [NoSafetyCall EXCEPT !.pc = "done",
                                           !.user_type = user_type]
    /\ safety_ret' = SafetyReturned(lighting_score, footfall_score,
                                    hazard_score, proximity_score, user_type)
    /\ UNCHANGED <<service_call, service_ret>>
    /\ UNCHANGED wilsonVars
    /\ UNCHANGED repVars
    /\ UNCHANGED <<osrm_available, is_local_osrm, route_call, route_result>>

----------------------------------------------------------------------------
(* safety_service.calculate_safety_score (services/safety_service.py)      *)

\* places the Mappls API lists nearby (0 too when it fails or has no key)
MapplsCounts == {0, 10, 50, 70}

\* weathercode of the current weather (0 too when the lookup fails)
WeatherCodes == {0, 61}

ServiceInputs ==
    [pixel_mean : PixelMeans, spot_distance : SpotDistances,
     poi_count : MapplsCounts, weathercode : WeatherCodes,
     reports : 0..MaxNearbyReports]

NoServiceCall ==
    [pc |-> "idle", pixel_mean |-> 0, spot_distance |-> 5000, poi_count |-> 0,
     weathercode |-> 0, reports |-> 0]

NoServiceRet ==
    [outcome |-> "none", error |-> "", overall_score |-> 0, lighting |-> 0,
     footfall |-> 0, hazards |-> 0, proximity |-> 0]

\* SafetyFactor.score and SafetyScoreResponse.overall_score: int, ge=0, le=100
ValidScore(score) == score >= 0 /\ score <= 100

\* lines 64-75: SafetyScoreResponse(...) of pydantic; the result is built if
\* every score passes validation, else ValidationError is raised
ServiceResponse(result) ==
    IF /\ ValidScore(result.lighting) /\ ValidScore(result.footfall)
       /\ ValidScore(result.hazards) /\ ValidScore(result.proximity)
       /\ ValidScore(result.overall_score)
    THEN result
    ELSE [NoServiceRet EXCEPT !.outcome = "raised",
                              !.error = "ValidationError"]

\* lines 38-61: the average of the four scores and int() of each
ServiceScores(lighting_score, footfall_score, hazards_score, proximity_to_help_score) ==
    ServiceResponse(
        [outcome |-> "returned", error |-> "",
         overall_score |->
             FTrunc(FDiv(FAdd(FAdd(FAdd(lighting_score,
                                        FFromInt(footfall_score)),
                                   FFromInt(hazards_score)),
                              FFromInt(proximity_to_help_score)),
                         FFromInt(4))),
         lighting |-> FTrunc(lighting_score),
         footfall |-> footfall_score,
         hazards |-> hazards_score,
         proximity |-> proximity_to_help_score])

\* lines 11-15: brightness * 100, halved near a reported dark spot
service_lighting_score(in) ==
    IF in.spot_distance < 500
    THEN FMul(FMul(FDiv(FFromInt(in.pixel_mean), FFromInt(255)), F100),
              FLit(5, 10))
    ELSE FMul(FDiv(FFromInt(in.pixel_mean), FFromInt(255)), F100)

\* lines 11-75
service_calculate_safety_score(in) ==
    ServiceScores(service_lighting_score(in),
                  Min(in.poi_count * 2, 100),
                  90 - (IF in.weathercode > 50 THEN 20 ELSE 0)
                     - in.reports * 10,
                  60)

ServiceCall(in) ==
    /\ service_call.pc = "idle"
    /\ service_call' = [pc |-> "done", pixel_mean |-> in.pixel_mean,
                        spot_distance |-> in.spot_distance,
                        poi_count |-> in.poi_count,
                        weathercode |-> in.weathercode,
                        reports |-> in.reports]
    /\ service_ret' = service_calculate_safety_score(in)
    /\ UNCHANGED <<safety_call, safety_ret>>
    /\ UNCHANGED wilsonVars
    /\ UNCHANGED repVars
    /\ UNCHANGED <<osrm_available, is_local_osrm, route_call, route_result>>

\* the next call
ServiceReset ==
    /\ service_call.pc = "done"
    /\ service_call' = NoServiceCall
    /\ service_ret' = NoServiceRet
    /\ UNCHANGED <<safety_call, safety_ret>>
    /\ UNCHANGED wilsonVars
    /\ UNCHANGED repVars
    /\ UNCHANGED <<osrm_available, is_local_osrm, route_call, route_result>>

----------------------------------------------------------------------------
(* Specifications.                                                         *)

InitWith(local) ==
    /\ wilson_call = NoCall
    /\ wilson_ret = NoRet
    /\ db_reputation = NoReputation
    /\ request = NoRequest
    /\ response = NoResponse
    /\ calls = 0
    /\ verified_calls = 0
    /\ sessions = NoSessions
    /\ osrm_available = FALSE
    /\ is_local_osrm = local
    /\ route_call = NoRouteCall
    /\ route_result = NoResult
    /\ safety_call = NoSafetyCall
    /\ safety_ret = NoSafetyRet
    /\ service_call = NoServiceCall
    /\ service_ret = NoServiceRet

\* OSRMService.__init__; USE_LOCAL_OSRM defaults to "true"
Init == InitWith(TRUE)

InitRoute == \E local \in BOOLEAN : InitWith(local)

NextWilson ==
    \/ \E positive \in 0..MaxCount, total \in 0..MaxCount, z \in ZScores :
          WilsonCall(positive, total, z)
    \/ WilsonReset

SpecWilson == Init /\ [][NextWilson]_vars

NextRep ==
    \/ \E verified \in BOOLEAN : UpdateBegin(verified)
    \/ UpdateFinish

SpecRep == Init /\ [][NextRep]_vars

\* The row the handler has committed for a user with total reports of which
\* positive were verified: the lazily created row while there is none, else
\* what the last update wrote (lines 52-77).
CommittedRow(positive, total) ==
    IF total = 0 THEN NewReputation
    ELSE CHOOSE row \in
            {[exists |-> TRUE, trust_level |-> score,
              positive_reports |-> positive, total_reports |-> total,
              community_standing |-> Standing(score, total)] :
                score \in {calculate_wilson_score(positive, total, Z196).value}} :
            TRUE

\* Users with a history: <<positive, total>> around the totals 10, 20, 50
\* and 90 at which the classification changes.
Histories ==
    {<<0, 8>>, <<8, 8>>, <<7, 9>>, <<9, 9>>,
     <<12, 19>>, <<19, 19>>, <<17, 20>>, <<20, 20>>,
     <<36, 49>>, <<49, 49>>, <<27, 50>>, <<46, 50>>, <<50, 50>>,
     <<44, 88>>, <<44, 89>>, <<45, 89>>, <<79, 89>>}

\* calls and verified_calls count the updates served from here on
InitHistory ==
    /\ wilson_call = NoCall
    /\ wilson_ret = NoRet
    /\ \E h \in Histories : db_reputation = CommittedRow(h[1], h[2])
    /\ request = NoRequest
    /\ response = NoResponse
    /\ calls = 0
    /\ verified_calls = 0
    /\ sessions = NoSessions
    /\ osrm_available = FALSE
    /\ is_local_osrm = TRUE
    /\ route_call = NoRouteCall
    /\ route_result = NoResult
    /\ safety_call = NoSafetyCall
    /\ safety_ret = NoSafetyRet
    /\ service_call = NoServiceCall
    /\ service_ret = NoServiceRet

NextHistory ==
    \/ calls < MaxMore /\ \E verified \in BOOLEAN : UpdateBegin(verified)
    \/ UpdateFinish

SpecHistory == InitHistory /\ [][NextHistory]_vars

NextConcurrent ==
    \/ \E i \in 1..2, verified \in BOOLEAN : ConcurrentQuery(i, verified)
    \/ \E i \in 1..2 : ConcurrentCreate(i)
    \/ \E i \in 1..2 : ConcurrentWrite(i)
    \/ ConcurrentReset

SpecConcurrent == Init /\ [][NextConcurrent]_vars

NextSafety ==
    \/ \E env \in Environments, user_type \in UserTypes,
          time_of_day \in TimesOfDay : SafetyCall(env, user_type, time_of_day)
    \/ LookupsReturn
    \/ SafetyReturn
    \/ SafetyReset

SpecSafety == Init /\ [][NextSafety]_vars

\* a lookup whose provider has answered or failed does return
SpecSafetyFair == SpecSafety /\ WF_vars(LookupsReturn)

NextBlend ==
    \/ \E l \in FactorScores, f \in FactorScores, h \in FactorScores,
          p \in FactorScores, user_type \in UserTypes :
            SafetyBlend(l, f, h, p, user_type)
    \/ SafetyReset

SpecBlend == Init /\ [][NextBlend]_vars

\* what _get_lighting_score and _get_hazard_score can return: an integer
\* clamped to 0..100 (line 107, line 167), 50 on an exception
ClampedScores == {0, 30, 50, 70, 100}

\* what _get_footfall_score can return (lines 130-140, and 50 on line 144)
FootfallScores == {25, 45, 50, 65, 80, 95}

\* what _get_proximity_score can return (lines 185-195, and 50 on line 199)
ProximityScores == {20, 40, 50, 60, 75, 90}

\* the blend on the values the four lookups can return
NextFactors ==
    \/ \E l \in ClampedScores, f \in FootfallScores, h \in ClampedScores,
          p \in ProximityScores, user_type \in UserTypes :
            SafetyBlend(l, f, h, p, user_type)
    \/ SafetyReset

SpecFactors == Init /\ [][NextFactors]_vars

\* calls with the lookups made and calls with their results given
NextSafetyAll == NextSafety \/ NextBlend

SpecSafetyAll == Init /\ [][NextSafetyAll]_vars

NextService ==
    \/ \E in \in ServiceInputs : ServiceCall(in)
    \/ ServiceReset

SpecService == Init /\ [][NextService]_vars

NextRoute ==
    \/ \E ok \in BOOLEAN : SetupOsrm(ok)
    \/ \E req \in RouteRequests, data \in OsrmReplies \cup {NoReply} :
          CalculateRoute(req, data)
    \/ RouteReset

SpecRoute == InitRoute /\ [][NextRoute]_vars

NextAlternatives ==
    \/ \E scores \in ScoreLists : Alternatives(scores)
    \/ RouteReset

SpecAlternatives == Init /\ [][NextAlternatives]_vars

----------------------------------------------------------------------------
(* Claims about calculate_route (SpecRoute).                               *)

Called   == route_result.outcome # "none"
Returned4 == {route_result.route, route_result.safest, route_result.fastest,
              route_result.balanced}

\* C1: calculate_route never raises, whatever the routing provider answers,
\* and a provider failure is answered with the locally synthesized
\* straight-line fallback route.
C1_NeverRaisesAndFallsBack ==
    Called =>
        /\ route_result.outcome = "returned"
        /\ route_call.provider_failed => route_result.path = "fallback"

\* C2: after a provider failure, for distinct start and end, the primary
\* route returned has distance_meters > 0.
C2_FallbackDistancePositive ==
    (Called /\ route_call.provider_failed /\ route_call.start # route_call.end)
        => /\ route_result.outcome = "returned"
           /\ route_result.route.distance_meters > 0

\* C3: in every result the durations of the alternatives are strictly
\* ordered: safest > balanced > fastest.
C3_DurationsStrictlyOrdered ==
    route_result.outcome = "returned" =>
        /\ route_result.safest.duration_seconds
             > route_result.balanced.duration_seconds
        /\ route_result.balanced.duration_seconds
             > route_result.fastest.duration_seconds

\* C4: for every safety_preference in 0..100 the primary route and each of
\* the three alternatives of a result have time_weight + safety_weight = 1
\* (exactly, in float arithmetic).
C4_WeightsSumToOne ==
    route_result.outcome = "returned" =>
        \A r \in Returned4 : FAdd(r.time_weight, r.safety_weight) = F1

C4_Witness ==
    /\ route_result.outcome = "returned"
    /\ route_call.safety_preference = 30
    /\ route_call.reply = "ok_route"
    /\ route_result.route.duration_seconds > 0

FAbs(a) == [a EXCEPT !.s = 0]

\* 10^-9: what "equal" means for a float compared with a decimal fraction
Tolerance == FLit(1, 1000000000)

\* C5: time_weight is the float 0.3 + (safety_preference / 100) * 0.4: it is
\* exactly 0.3 at preference 0 and exactly 0.7 at 100, it is within 10^-9 of
\* the decimal 0.3 + 0.004 * preference everywhere (at 80 it is the float next
\* above 0.62, and safety_weight the float next below 0.38), and both weights
\* lie in [0.3, 0.7] for every preference in 0..100.
C5_TimeWeightFormula ==
    route_result.outcome = "returned" =>
        LET p  == route_call.safety_preference
            tw == route_result.route.time_weight
            sw == route_result.route.safety_weight
        IN  /\ FLe(FAbs(FSub(tw, FLit(300 + 4 * p, 1000))), Tolerance)
            /\ FLe(FAbs(FSub(sw, FLit(700 - 4 * p, 1000))), Tolerance)
            /\ p = 0 => tw = F03
            /\ p = 100 => tw = F07
            /\ p = 80 => /\ FLt(FLit(62, 100), tw)
                         /\ FLt(sw, FLit(38, 100))
            /\ FLe(F03, tw) /\ FLe(tw, F07)
            /\ FLe(F03, sw) /\ FLe(sw, F07)

\* C5 as stated: time_weight is 0.3 at preference 0, 0.62 at 80 (with
\* safety_weight 0.38) and 0.7 at 100, and both weights lie in [0.3, 0.7].
C5_AsStated ==
    route_result.outcome = "returned" =>
        LET p  == route_call.safety_preference
            tw == route_result.route.time_weight
            sw == route_result.route.safety_weight
        IN  /\ p = 0 => tw = F03
            /\ p = 100 => tw = F07
            /\ p = 80 => tw = FLit(62, 100) /\ sw = FLit(38, 100)
            /\ FLe(F03, tw) /\ FLe(tw, F07)
            /\ FLe(F03, sw) /\ FLe(sw, F07)

C5_Witness ==
    /\ route_result.outcome = "returned"
    /\ route_call.safety_preference = 80
    /\ route_result.route.time_weight # FLit(62, 100)

----------------------------------------------------------------------------
(* Claims about calculate_wilson_score (SpecWilson).                       *)

WilsonDone == wilson_ret.raised # "pending"

\* C6: with total = 0 calculate_wilson_score returns exactly 0.0, for every
\* positive and every z, without executing a division.
C6_ZeroTotalReturnsZero ==
    (WilsonDone /\ wilson_call.total = 0) =>
        /\ wilson_ret.raised = ""
        /\ wilson_ret.value = FZero
        /\ wilson_ret.divisions = 0

C6_Witness ==
    /\ WilsonDone
    /\ wilson_call.total = 0
    /\ wilson_call.positive > 0
    /\ wilson_call.z = Z196
    /\ wilson_ret.value = FZero

\* C7: for total >= 1 and 0 <= positive <= total (z >= 0) the value returned
\* lies in [0, 1].
C7_ScoreInUnitInterval ==
    (WilsonDone /\ wilson_call.total >= 1
                /\ wilson_call.positive <= wilson_call.total)
        => /\ wilson_ret.raised = ""
           /\ FLe(FZero, wilson_ret.value)
           /\ FLe(wilson_ret.value, F1)

\* C8: for fixed total >= 1 and fixed z the score does not decrease as
\* positive grows from 0 to total: each step from positive - 1 to positive
\* does not lower it (so neither does any number of steps).
C8_MonotoneInPositive ==
    (WilsonDone /\ wilson_call.positive >= 1
                /\ wilson_call.positive <= wilson_call.total)
        => /\ wilson_ret.raised = ""
           /\ FLe(calculate_wilson_score(wilson_call.positive - 1,
                                         wilson_call.total,
                                         wilson_call.z).value,
                  wilson_ret.value)

C8_Witness ==
    /\ WilsonDone
    /\ wilson_call.positive = 7
    /\ wilson_call.total = 12
    /\ wilson_call.z = Z196
    /\ FLt(calculate_wilson_score(6, 12, Z196).value, wilson_ret.value)

----------------------------------------------------------------------------
(* Claims about update-reputation (SpecRep).                               *)

\* C9: every update adds 1 to total_reports and 1 to positive_reports iff
\* the report was verified: after k updates of a lazily created record
\* total_reports = k and positive_reports = the number of verified ones,
\* 0 <= positive_reports <= total_reports, and neither count ever decreases.
C9_CountsFollowUpdates ==
    /\ [](/\ db_reputation.total_reports = calls
          /\ db_reputation.positive_reports = verified_calls
          /\ 0 <= db_reputation.positive_reports
          /\ db_reputation.positive_reports <= db_reputation.total_reports)
    /\ [][/\ db_reputation'.total_reports >= db_reputation.total_reports
          /\ db_reputation'.positive_reports
               >= db_reputation.positive_reports]_vars

C9_Witness ==
    /\ calls = 3
    /\ verified_calls = 2
    /\ db_reputation.total_reports = 3
    /\ db_reputation.positive_reports = 2

\* C10: while the total after an update is below 10 the standing is "new",
\* whatever the score: so it is through a user's first nine updates, even
\* if every report was verified.
C10_NewBelowTenReports ==
    (db_reputation.exists /\ db_reputation.total_reports < 10)
        => db_reputation.community_standing = "new"

C10_Witness ==
    /\ db_reputation.total_reports = 9
    /\ db_reputation.positive_reports = 9
    /\ FLt(F04, db_reputation.trust_level)
    /\ db_reputation.community_standing = "new"
    /\ response.status = "ok"

\* C11: the standing of a committed record is the first matching rule of:
\* total < 10 -> new; score > 0.8 and total > 50 -> expert; score > 0.6 and
\* total > 20 -> verified; score > 0.4 -> trusted; otherwise new.  So expert
\* implies score > 0.8 and total > 50, verified implies score > 0.6 and
\* total > 20, trusted implies score > 0.4 and total >= 10, all strict.
C11_StandingFirstMatchingRule ==
    LET score    == db_reputation.trust_level
        total    == db_reputation.total_reports
        standing == db_reputation.community_standing
        few      == total < 10
        expert   == FLt(F08, score) /\ total > 50
        verified == FLt(F06, score) /\ total > 20
        trusted  == FLt(F04, score)
    IN  /\ few => standing = "new"
        /\ (~few /\ expert) => standing = "expert"
        /\ (~few /\ ~expert /\ verified) => standing = "verified"
        /\ (~few /\ ~expert /\ ~verified /\ trusted) => standing = "trusted"
        /\ (~few /\ ~expert /\ ~verified /\ ~trusted) => standing = "new"
        /\ standing = "expert" => (FLt(F08, score) /\ total > 50)
        /\ standing = "verified" => (FLt(F06, score) /\ total > 20)
        /\ standing = "trusted" => (FLt(F04, score) /\ total >= 10)

C11_Witness ==
    /\ response.status = "ok"
    /\ calls = 1
    /\ db_reputation.positive_reports = 47
    /\ db_reputation.total_reports = 51
    /\ db_reputation.community_standing = "expert"

\* C12: a user whose counts after an update are positive_reports = 45 and
\* total_reports = 90 has a Wilson score (z = 1.96) just below 0.4 and the
\* standing "new"; with 46 of 90 the score exceeds 0.4 and the standing is
\* "trusted".
C12_FortyFiveOfNinetyIsNew ==
    (response.status = "ok" /\ db_reputation.total_reports = 90) =>
        /\ db_reputation.positive_reports = 45 =>
              /\ FLt(db_reputation.trust_level, F04)
              /\ FLt(FLit(39, 100), db_reputation.trust_level)
              /\ db_reputation.community_standing = "new"
        /\ db_reputation.positive_reports = 46 =>
              /\ FLt(F04, db_reputation.trust_level)
              /\ db_reputation.community_standing = "trusted"

\* C12 as stated: a user whose counts after an update are 45 and 90 is
\* classified "trusted".
C12_AsStated ==
    (response.status = "ok" /\ db_reputation.positive_reports = 45
                            /\ db_reputation.total_reports = 90)
        => db_reputation.community_standing = "trusted"

C12_Witness ==
    /\ response.status = "ok"
    /\ calls >= 1
    /\ db_reputation.positive_reports = 45
    /\ db_reputation.total_reports = 90
    /\ response.community_standing = "new"

\* C13: in every committed state of a user's record, the one committed right
\* after lazy creation included, trust_level is
\* calculate_wilson_score(positive_reports, total_reports) and
\* community_standing the classification of that score and total.
C13_DerivedFieldsFollowCounts ==
    db_reputation.exists =>
        \A score \in {calculate_wilson_score(db_reputation.positive_reports,
                                              db_reputation.total_reports,
                                              Z196)} :
            /\ score.raised = ""
            /\ db_reputation.trust_level = score.value
            /\ db_reputation.community_standing
                 = Standing(score.value, db_reputation.total_reports)

----------------------------------------------------------------------------
(* Claims about calculate_safety_score.                                    *)

SafetyDone == safety_ret.outcome = "returned"

\* C14: for every combination of values in 0..100 the four factor lookups
\* return and every user_type, calculate_safety_score returns an integer in
\* [0, 100].
C14_ScoreInRange ==
    SafetyDone => (safety_ret.score \in Int /\ safety_ret.score >= 0
                                            /\ safety_ret.score <= 100)

C14_Witness ==
    /\ SafetyDone
    /\ safety_ret.lighting = 100
    /\ safety_ret.footfall = 100
    /\ safety_ret.hazard = 0
    /\ safety_ret.proximity = 100
    /\ safety_call.user_type = "pedestrian"
    /\ safety_ret.score = 100

\* C15: with the same lighting, footfall and proximity values and the same
\* user_type, the overall score with hazard score 100 is strictly lower than
\* the overall score with hazard score 0.
C15_MaxHazardLowersScore ==
    (SafetyDone /\ safety_ret.hazard = 100) =>
        safety_ret.score < final_score(safety_ret.lighting, safety_ret.footfall,
                                       0, safety_ret.proximity,
                                       safety_call.user_type)

C15_Witness ==
    /\ SafetyDone
    /\ safety_ret.hazard = 100
    /\ safety_ret.lighting = 100
    /\ safety_ret.footfall = 100
    /\ safety_ret.proximity = 100
    /\ safety_call.user_type = "pedestrian"
    /\ safety_ret.score = 80

\* C16: when a provider call fails during calculate_safety_score, the factor
\* it feeds takes the neutral value 50 (lighting for the satellite
\* brightness; footfall and proximity for the POI count) and a score is
\* returned.
C16_FailedLookupGivesFifty ==
    SafetyDone =>
        /\ safety_call.env.viirs = "error" => safety_ret.lighting = 50
        /\ safety_call.env.overpass = "error" =>
              (safety_ret.footfall = 50 /\ safety_ret.proximity = 50)

\* C17: for a location without data (POI count 0 at every radius, no dark
\* spot near, no satellite brightness) each of the four factors is 50 and
\* the overall score is 50.
C17_NoDataGivesFifty ==
    (/\ SafetyDone
     /\ safety_call.env.pixel_mean = 0
     /\ safety_call.env.poi.r1000 = 0
     /\ safety_call.env.spot_distance >= 500)
        => /\ safety_ret.lighting = 50
           /\ safety_ret.footfall = 50
           /\ safety_ret.hazard = 50
           /\ safety_ret.proximity = 50
           /\ safety_ret.score = 50

\* C18: no lookup blocks a call of calculate_safety_score for ever: once the
\* lookups have started they eventually all end, whatever the providers do
\* (a provider that never responds included), and the score is computed.
C18_LookupsEventuallyEnd ==
    (safety_call.pc = "waiting") ~> (safety_call.pc # "waiting")

Half == FLit(1, 2)

\* C20: the overall score is the weighted sum 0.30*lighting + 0.25*footfall
\* + 0.20*(100 - hazard) + 0.25*proximity times the user-type factor,
\* rounded to the nearest integer (within 0.5 of it) and clamped to [0, 100].
C20_ScoreIsRoundedBlend ==
    SafetyDone =>
        \A blend \in {adjusted_score(weighted_score(safety_ret.lighting,
                                                    safety_ret.footfall,
                                                    safety_ret.hazard,
                                                    safety_ret.proximity),
                                     safety_call.user_type)} :
            /\ safety_ret.score >= 0 /\ safety_ret.score <= 100
            /\ FLe(FAbs(FSub(FFromInt(safety_ret.score), blend)), Half)

\* C19: safety_service.calculate_safety_score always returns a result whose
\* overall_score and four factor scores are integers in 0..100, for any
\* number of nearby hazard reports, any weather code and any POI count; it
\* never fails because a factor leaves that range.
C19_ServiceScoresInRange ==
    service_call.pc = "done" =>
        /\ service_ret.outcome = "returned"
        /\ \A score \in {service_ret.overall_score, service_ret.lighting,
                          service_ret.footfall, service_ret.hazards,
                          service_ret.proximity} : score \in 0..100

\* C21: the lighting score is clamped to [0, 100] first and derated by the
\* time of day after that: the night score is int(0.70 * day score), the
\* evening score int(0.85 * day score), the day score the clamped sum itself;
\* so for the same lookups night <= evening <= day, every lighting score is
\* in [0, 100] and a night score is at most 70.
C21_LightingDeratedAfterClamp ==
    (SafetyDone /\ safety_call.pc = "done") =>
        LET day     == get_lighting_score(safety_call.env, "day")
            evening == get_lighting_score(safety_call.env, "evening")
            night   == get_lighting_score(safety_call.env, "night")
        IN  /\ safety_ret.lighting
                 = get_lighting_score(safety_call.env, safety_call.time_of_day)
            /\ safety_ret.lighting >= 0 /\ safety_ret.lighting <= 100
            /\ day >= 0 /\ day <= 100
            /\ night = FTrunc(FMul(FFromInt(day), F07))
            /\ evening = FTrunc(FMul(FFromInt(day), F085))
            /\ night <= evening /\ evening <= day
            /\ night <= 70

\* a night call where satellite brightness and POI bonus exceed 100 together
C21_Witness ==
    /\ SafetyDone
    /\ safety_call.pc = "done"
    /\ safety_call.time_of_day = "night"
    /\ safety_call.env.viirs = "ok"
    /\ safety_call.env.overpass = "ok"
    /\ safety_call.env.pixel_mean = 255
    /\ safety_call.env.poi.r300 = 150
    /\ safety_ret.lighting = 70

\* C22: for the same four factor values the scores of the user types are
\* ordered cyclist <= two_wheeler <= pedestrian; the weighted sum is
\* multiplied by 0.90, 0.95 and 1.0 before it is truncated and clamped; a
\* user_type the code does not name is scored as pedestrian is.
C22_UserTypeDerating ==
    SafetyDone =>
        LET l == safety_ret.lighting
            f == safety_ret.footfall
            h == safety_ret.hazard
            p == safety_ret.proximity
            u == safety_call.user_type
        IN  /\ u = "cyclist" =>
                 safety_ret.score = Max(0, Min(100, FTrunc(
                     FMul(weighted_score(l, f, h, p), FLit(90, 100)))))
            /\ u = "two_wheeler" =>
                 safety_ret.score = Max(0, Min(100, FTrunc(
                     FMul(weighted_score(l, f, h, p), FLit(95, 100)))))
            /\ u \notin {"cyclist", "two_wheeler"} =>
                 safety_ret.score
                     = Max(0, Min(100, FTrunc(weighted_score(l, f, h, p))))
            /\ u = "car" =>
                 safety_ret.score = final_score(l, f, h, p, "pedestrian")
            /\ u = "pedestrian" =>
                 /\ final_score(l, f, h, p, "cyclist")
                      <= final_score(l, f, h, p, "two_wheeler")
                 /\ final_score(l, f, h, p, "two_wheeler") <= safety_ret.score

\* an unnamed user type scored 100, above what a cyclist gets for the same
C22_Witness ==
    /\ SafetyDone
    /\ safety_call.user_type = "car"
    /\ safety_ret.score = 100
    /\ final_score(safety_ret.lighting, safety_ret.footfall, safety_ret.hazard,
                   safety_ret.proximity, "cyclist") = 90

----------------------------------------------------------------------------
(* Claims about the scores of a route (SpecAlternatives, SpecRoute).       *)

\* n = floor(num/den * a) for a float a >= 0 and integers num, den > 0,
\* in exact arithmetic: den * n * 2^-e <= num * m < den * (n + 1) * 2^-e
IsFloorOfProduct(n, num, den, a) ==
    /\ n >= 0
    /\ BCmp(BShl(BMulSmall(BFromInt(n), den), -a.e),
            BMulSmall(a.m, num)) <= 0
    /\ BCmp(BMulSmall(a.m, num),
            BShl(BMulSmall(BFromInt(n + 1), den), -a.e)) = -1

\* the safest variant's score before the cap, given the score after it
UpTo100(n) == IF n < 100 THEN {n} ELSE 100..120

C24_ScoreIsMeanOfWaypointScores ==
    (Called /\ route_call.reply = "ok_route") =>
        /\ Len(route_call.safety_scores) = Len(route_result.safety_calls)
        /\ \A i \in 1..Len(route_result.safety_calls) :
              route_result.safety_calls[i] = i
        /\ route_call.safety_scores # <<>> =>
              /\ route_result.outcome = "returned"
              /\ route_result.path = "provider"
              /\ route_result.route.safety_score
                   = Sum(route_call.safety_scores)
                       \div Len(route_call.safety_scores)

\* C25: _generate_waypoints(start, end, 5) returns 5 points, the i-th at
\* fraction i/6 of the way from start to end in latitude and in longitude,
\* and they are the waypoints of the route calculate_route returns when it
\* falls back: in start-to-end order, neither start nor end among them.
C25_FallbackWaypoints ==
    (Called /\ route_result.path = "fallback") =>
        \A w \in {generate_waypoints(route_call.start, route_call.end, 5)} :
            /\ Len(w) = 5
            /\ \A i \in 1..5 :
                  /\ FLe(FAbs(FSub(w[i].latitude,
                          FLit(6 * route_call.start.latitude
                                 + i * (route_call.end.latitude
                                          - route_call.start.latitude), 6))),
                         Tolerance)
                  /\ FLe(FAbs(FSub(w[i].longitude,
                          FLit(6 * route_call.start.longitude
                                 + i * (route_call.end.longitude
                                          - route_call.start.longitude), 6))),
                         Tolerance)
            /\ route_result.outcome = "returned"
            /\ route_result.route.waypoints = w

\* C26: safety_weight does not decrease when safety_preference grows: the
\* safety_weight of a returned route is at most the one the next higher
\* preference gets.
C26_SafetyWeightMonotone ==
    (route_result.outcome = "returned"
        /\ route_call.safety_preference < MaxPreference) =>
        FLe(route_result.route.safety_weight,
            safety_weight(time_weight(route_call.safety_preference + 1)))

----------------------------------------------------------------------------
(* Further claims about the reputation engine.                             *)

\* C27: for every positive >= 0, total >= 0 and z >= 0, also with
\* positive > total, calculate_wilson_score returns a number: it never raises.
C27_WilsonNeverRaises ==
    WilsonDone => wilson_ret.raised = ""

\* C28: two update-reputation requests for one user that interleave lose
\* no update: once both are answered, neither got an error, total_reports
\* counts every request served and positive_reports every verified one.
C28_NoLostUpdate ==
    (\A i \in 1..2 : sessions[i].pc = "done") =>
        /\ \A i \in 1..2 : sessions[i].status = "ok"
        /\ db_reputation.exists
        /\ db_reputation.total_reports = calls
        /\ db_reputation.positive_reports = verified_calls

\* what the provider did when it delivered no answer with code "Ok"
FailedReplies == HttpFailures \cup {"not_requested"}

C30_ScoreFromTenToNinetySix ==
    (/\ SafetyDone
     /\ safety_ret.lighting \in 0..100
     /\ safety_ret.hazard \in 0..100
     /\ safety_ret.footfall \in FootfallScores
     /\ safety_ret.proximity \in ProximityScores) =>
        /\ safety_ret.score >= 10
        /\ safety_ret.score <= 96
        /\ FTrunc(FMul(avg_safety_score(<<safety_ret.score>>), F08)) > 0

C30_Witness ==
    /\ SafetyDone
    /\ safety_ret.lighting = 0
    /\ safety_ret.footfall = 25
    /\ safety_ret.hazard = 100
    /\ safety_ret.proximity = 20
    /\ safety_call.user_type = "cyclist"
    /\ safety_ret.score = 10

====
